---- MODULE Spec2Model ----
(***************************************************************************)
(* Job orchestrator of dgx-music: the QueueManager                         *)
(* (services/generation/queue_manager.py) and the GenerationService        *)
(* (services/generation/service.py) with its single worker loop.           *)
(***************************************************************************)
EXTENDS Integers, Sequences, FiniteSets, TLC

\* ---------------------------------------------------------------- bounds
MaxJobs == 3            \* job ids issued by the service: 1..MaxJobs
MaxBatch == 2           \* largest batch handed to submit_batch
MaxRetryLimit == 1      \* max_retries is drawn from 0..MaxRetryLimit
MaxEnqueues == 3        \* enqueue calls of a direct caller of the QueueManager
MaxStore == 3           \* records of the generations table at startup
MaxScript == 4          \* scripted failures of one job; max_retries of a scripted run
MaxLedger == 5          \* enqueue calls in a run that audits the counters
MaxDelay == 2           \* retry_delay of a scripted run is drawn from 1..MaxDelay

JobIds == 1..MaxJobs
StoreIds == 1..MaxStore
Requests == {"reqA", "reqB"}

DefaultRetryDelay == 1  \* retry_delay: float = 1.0

\* the request a caller passes with a submission; the orchestrator never
\* looks inside it, so the k-th submission carries one of two values
RequestFor(job_id) == IF job_id % 2 = 1 THEN "reqA" ELSE "reqB"

\* ------------------------------------------------------------- variables
VARIABLES
    queue,          \* QueueManager._queue: sequence of QueuedJob
    current_job,    \* QueueManager._current_job (NoJob for None)
    stats,          \* QueueManager._stats
    lock,           \* holder of QueueManager._lock across steps
    job_states,     \* GenerationService._job_states
    max_retries,    \* GenerationService.max_retries
    nextId,         \* number of job ids issued so far
    wpc,            \* position of the worker inside process_next_job
    wjob,           \* the QueuedJob the worker dequeued (job_id, request, retry_count)
    bpc,            \* position of a submit_batch call
    bjobs,          \* the (job_id, request) list of the running batch
    bapp,           \* entries of the batch appended so far
    bbase,          \* len(_queue) when enqueue_batch took the lock
    submitted,      \* ids whose submit call has enqueued them
    attempts,       \* per job: calls of _generate_with_progress
    requeues,       \* per job: re-enqueues by _handle_retry
    ret,            \* what the API call just made returned
    enq_log,        \* ids handed to QueueManager.enqueue by a direct caller
    deq_log,        \* job ids QueueManager.dequeue returned (0 for None)
    phase,          \* shape of a direct caller's run: enqueues, then dequeues
    store,          \* the generations table read by load_from_database
    query_accepts,  \* whether session.query accepts the session's own class
    recovered,      \* value load_from_database returned (-1 before the call)
    retry_delay,    \* GenerationService.retry_delay
    script,         \* per job: attempts the engine fails (-1: any outcome)
    sleep_log,      \* per job: the delays _handle_retry slept
    db_on,          \* whether the service has a db_session_factory
    table           \* the generations table as the service writes it

vars == <<queue, current_job, stats, lock, job_states, max_retries, nextId,
          wpc, wjob, bpc, bjobs, bapp, bbase, submitted, attempts, requeues, ret,
          enq_log, deq_log, phase, store, query_accepts, recovered,
          retry_delay, script, sleep_log, db_on, table>>

qmVars == <<queue, current_job, stats>>
workerVars == <<wpc, wjob>>
batchVars == <<bpc, bjobs, bapp, bbase>>
logVars == <<enq_log, deq_log, phase>>
recoveryVars == <<store, query_accepts, recovered>>
configVars == <<max_retries, retry_delay, script, db_on>>
serviceVars == <<lock, job_states, configVars, nextId, wpc, wjob, bpc, bjobs, bapp,
                 bbase, submitted, attempts, requeues, sleep_log, table>>

\* ------------------------------------------------------------ data model
QueuedJob(job_id, request, retry_count) ==
    [job_id |-> job_id, request |-> request, retry_count |-> retry_count]

NoJob == [job_id |-> 0, request |-> "none", retry_count |-> 0]

NoState == [status |-> "none", current_step |-> "none", request |-> "none",
            retry_count |-> 0, completed_at |-> FALSE, error_message |-> {}]

NewJobState(request) ==
    [status |-> "pending", current_step |-> "queued", request |-> request,
     retry_count |-> 0, completed_at |-> FALSE, error_message |-> {}]

NoRet == [op |-> "none", value |-> FALSE]

TerminalStatuses == {"completed", "failed", "cancelled"}

QueueIds(q) == {q[i].job_id : i \in 1..Len(q)}

\* ---------------------------------------------------------- QueueManager
IsCurrent(job_id) == current_job # NoJob /\ current_job.job_id = job_id

\* enqueue with appendleft in place of append
enqueue_front(job_id, request, retry_count) ==
    /\ queue' = <<QueuedJob(job_id, request, retry_count)>> \o queue
    /\ stats' = [stats EXCEPT !.total_enqueued = @ + 1]
    /\ UNCHANGED current_job

enqueue(job_id, request, retry_count) ==
    /\ queue' = Append(queue, QueuedJob(job_id, request, retry_count))
    /\ stats' = [stats EXCEPT !.total_enqueued = @ + 1]
    /\ UNCHANGED current_job

\* dequeue that pops the head without recording it as the current job
dequeue_no_current ==
    /\ IF queue = <<>>
         THEN UNCHANGED queue
         ELSE queue' = Tail(queue)
    /\ UNCHANGED <<current_job, stats>>

\* dequeue with pop in place of popleft
dequeue_last ==
    /\ IF queue = <<>>
         THEN UNCHANGED <<queue, current_job>>
         ELSE /\ current_job' = queue[Len(queue)]
              /\ queue' = SubSeq(queue, 1, Len(queue) - 1)
    /\ UNCHANGED stats

dequeue ==
    /\ IF queue = <<>>
         THEN UNCHANGED <<queue, current_job>>
         ELSE /\ current_job' = Head(queue)
              /\ queue' = Tail(queue)
    /\ UNCHANGED stats

\* complete_job without the test that the id is the current job's
complete_job_any(job_id) ==
    /\ current_job' = NoJob
    /\ stats' = [stats EXCEPT !.total_completed = @ + 1]
    /\ UNCHANGED queue

complete_job(job_id) ==
    /\ IF IsCurrent(job_id)
         THEN /\ current_job' = NoJob
              /\ stats' = [stats EXCEPT !.total_completed = @ + 1]
         ELSE UNCHANGED <<current_job, stats>>
    /\ UNCHANGED queue

fail_job(job_id) ==
    /\ IF IsCurrent(job_id)
         THEN /\ current_job' = NoJob
              /\ stats' = [stats EXCEPT !.total_failed = @ + 1]
         ELSE UNCHANGED <<current_job, stats>>
    /\ UNCHANGED queue

\* index of the first queue entry with this id, 0 when there is none
FirstIndex(q, job_id) ==
    IF \E i \in 1..Len(q) : q[i].job_id = job_id
      THEN CHOOSE i \in 1..Len(q) :
             /\ q[i].job_id = job_id
             /\ \A k \in 1..(i - 1) : q[k].job_id # job_id
      ELSE 0

RemoveAt(q, i) == SubSeq(q, 1, i - 1) \o SubSeq(q, i + 1, Len(q))

\* cancel_job without the guard on the current job
cancel_found_any(job_id) == FirstIndex(queue, job_id) # 0

\* the value QueueManager.cancel_job returns
cancel_found(job_id) == ~IsCurrent(job_id) /\ FirstIndex(queue, job_id) # 0

cancel_job_queue(job_id) ==
    /\ IF cancel_found(job_id)
         THEN /\ queue' = RemoveAt(queue, FirstIndex(queue, job_id))
              /\ stats' = [stats EXCEPT !.total_cancelled = @ + 1]
         ELSE UNCHANGED <<queue, stats>>
    /\ UNCHANGED current_job

\* get_position that returns the index of enumerate as it is, without + 1
get_position_zero_based(job_id) ==
    IF IsCurrent(job_id) THEN 0
    ELSE IF FirstIndex(queue, job_id) # 0 THEN FirstIndex(queue, job_id) - 1
    ELSE -1

\* get_position that searches the queue before it looks at the current job
get_position_queue_first(job_id) ==
    IF FirstIndex(queue, job_id) # 0 THEN FirstIndex(queue, job_id)
    ELSE IF IsCurrent(job_id) THEN 0
    ELSE -1

\* -1 stands for None
get_position(job_id) ==
    IF IsCurrent(job_id) THEN 0
    ELSE IF FirstIndex(queue, job_id) # 0 THEN FirstIndex(queue, job_id)
    ELSE -1

\* get_stats that counts the current job among the pending ones
get_stats_pending_with_current ==
    [pending_jobs |-> Len(queue) + (IF current_job # NoJob THEN 1 ELSE 0),
     processing_jobs |-> IF current_job # NoJob THEN 1 ELSE 0,
     completed_jobs |-> stats.total_completed,
     failed_jobs |-> stats.total_failed]

get_stats ==
    [pending_jobs |-> Len(queue),
     processing_jobs |-> IF current_job # NoJob THEN 1 ELSE 0,
     completed_jobs |-> stats.total_completed,
     failed_jobs |-> stats.total_failed]

\* ------------------------------------------------------- storage layer
\* ids of the generations table are uuid4 strings (the column default), job
\* ids are "gen_" and 8 hex digits: the k-th record has id -k, never a job id
RecordId(k) == 0 - k

\* create_generation: the record keeps the job id in file_path only
create_generation(t, job_id) ==
    Append(t, [id |-> RecordId(Len(t) + 1), file_job |-> job_id,
               status |-> "pending", error_message |-> {}])

\* get_generation: index of the record with this id, 0 for None
get_generation(t, generation_id) ==
    IF \E i \in 1..Len(t) : t[i].id = generation_id
      THEN CHOOSE i \in 1..Len(t) : t[i].id = generation_id
      ELSE 0

update_generation_status(t, generation_id, status, error_message) ==
    IF get_generation(t, generation_id) = 0
      THEN t
      ELSE [t EXCEPT ![get_generation(t, generation_id)] =
              [@ EXCEPT !.status = status,
                        !.error_message =
                            IF status = "failed" /\ error_message # {}
                              THEN error_message ELSE @]]

complete_generation(t, generation_id) ==
    IF get_generation(t, generation_id) = 0
      THEN t
      ELSE [t EXCEPT ![get_generation(t, generation_id)].status = "completed"]

\* ----------------------------------------------------- GenerationService
\* outcomes of one persistence call: TRUE when it returns, FALSE when it
\* raises; without a db_session_factory no call is made
DbOutcomes == IF db_on THEN BOOLEAN ELSE {TRUE}

\* _create_database_record: the error is logged inside the helper
create_database_record(t, job_id, ok) ==
    IF db_on /\ ok THEN create_generation(t, job_id) ELSE t

\* _update_database_status and _update_database_progress
update_database_status(t, job_id, status, error_message, ok) ==
    IF db_on /\ ok THEN update_generation_status(t, job_id, status, error_message) ELSE t

\* _complete_database_record
complete_database_record(t, job_id, ok) ==
    IF db_on /\ ok THEN complete_generation(t, job_id) ELSE t

update_progress(job_id, status, step) ==
    IF job_states[job_id].status # "none"
      THEN job_states' = [job_states EXCEPT ![job_id].status = status,
                                            ![job_id].current_step = step]
      ELSE UNCHANGED job_states

NoResult == [status |-> "none", current_step |-> "none", retry_count |-> 0,
             error_message |-> {}, completed_at |-> FALSE]

\* _get_from_database: the record whose id is the job id, if any
get_from_database(job_id) ==
    IF get_generation(table, job_id) = 0
      THEN NoResult
      ELSE [status |-> table[get_generation(table, job_id)].status,
            current_step |-> IF table[get_generation(table, job_id)].status = "completed"
                               THEN "completed" ELSE "queued",
            retry_count |-> 0,
            error_message |-> table[get_generation(table, job_id)].error_message,
            completed_at |-> table[get_generation(table, job_id)].status
                                \in {"completed", "failed"}]

\* get_job_status with _state_to_result: the in-memory state comes first
get_job_status(job_id) ==
    IF job_states[job_id].status # "none"
      THEN [status |-> job_states[job_id].status,
            current_step |-> job_states[job_id].current_step,
            retry_count |-> job_states[job_id].retry_count,
            error_message |-> job_states[job_id].error_message,
            completed_at |-> job_states[job_id].completed_at]
      ELSE IF db_on THEN get_from_database(job_id) ELSE NoResult

\* submit_job without its persistence call: lines 94-106 and 112-124
SubmitJobState ==
    /\ lock = "free"
    /\ nextId < MaxJobs
    /\ \E request \in {RequestFor(nextId + 1)} :
         /\ job_states' = [job_states EXCEPT ![nextId + 1] = NewJobState(request)]
         /\ enqueue(nextId + 1, request, 0)
    /\ nextId' = nextId + 1
    /\ submitted' = submitted \cup {nextId + 1}
    /\ ret' = [op |-> "submit", value |-> TRUE]
    /\ UNCHANGED <<lock, configVars, workerVars, batchVars, attempts, requeues,
                   sleep_log, logVars, recoveryVars>>

\* submit_job whose _create_database_record lets the error through: the job
\* state exists, the job is never enqueued and the caller gets the error
SubmitJob_create_raises ==
    \E ok \in DbOutcomes :
        IF ok
          THEN /\ SubmitJobState
               /\ table' = create_database_record(table, nextId + 1, ok)
          ELSE /\ lock = "free"
               /\ nextId < MaxJobs
               /\ job_states' = [job_states EXCEPT ![nextId + 1] =
                                    NewJobState(RequestFor(nextId + 1))]
               /\ nextId' = nextId + 1
               /\ ret' = [op |-> "submit", value |-> FALSE]
               /\ UNCHANGED <<qmVars, lock, configVars, workerVars, batchVars,
                              submitted, attempts, requeues,
                              sleep_log, table, logVars, recoveryVars>>

SubmitJob ==
    /\ SubmitJobState
    /\ \E ok \in DbOutcomes : table' = create_database_record(table, nextId + 1, ok)

\* cancel_job that removes the queue entry and leaves the job state alone
CancelJob_no_state(job_id) ==
    /\ lock = "free"
    /\ cancel_job_queue(job_id)
    /\ ret' = [op |-> "cancel", value |-> cancel_found(job_id)]
    /\ UNCHANGED <<lock, job_states, configVars, nextId, workerVars, batchVars,
                   submitted, attempts, requeues,
                   sleep_log, table, logVars, recoveryVars>>

\* cancel_job that marks the job Cancelled whatever the queue answered
CancelJobState_marks_always(job_id) ==
    /\ lock = "free"
    /\ cancel_job_queue(job_id)
    /\ IF job_states[job_id].status # "none"
         THEN job_states' = [job_states EXCEPT ![job_id].status = "cancelled",
                                               ![job_id].current_step = "failed"]
         ELSE UNCHANGED job_states
    /\ ret' = [op |-> "cancel", value |-> cancel_found(job_id)]
    /\ UNCHANGED <<lock, configVars, nextId, workerVars, batchVars, submitted,
                   attempts, requeues,
                   sleep_log, logVars, recoveryVars>>

\* cancel_job without its persistence call: lines 196-201 and 209-211
CancelJobState(job_id) ==
    /\ lock = "free"
    /\ cancel_job_queue(job_id)
    /\ IF cancel_found(job_id) /\ job_states[job_id].status # "none"
         THEN job_states' = [job_states EXCEPT ![job_id].status = "cancelled",
                                               ![job_id].current_step = "failed"]
         ELSE UNCHANGED job_states
    /\ ret' = [op |-> "cancel", value |-> cancel_found(job_id)]
    /\ UNCHANGED <<lock, configVars, nextId, workerVars, batchVars, submitted,
                   attempts, requeues,
                   sleep_log, logVars, recoveryVars>>

CancelJob(job_id) ==
    /\ CancelJobState(job_id)
    /\ IF cancel_found(job_id)
         THEN \E ok \in DbOutcomes :
                table' = update_database_status(table, job_id, "cancelled",
                                                {"cancelled_by_user"}, ok)
         ELSE UNCHANGED table

\* the records the loop of submit_batch creates, one call per request
RECURSIVE create_batch_records(_, _, _)
create_batch_records(t, job_ids, oks) ==
    IF job_ids = <<>> THEN t
    ELSE create_batch_records(create_database_record(t, Head(job_ids), Head(oks)),
                              Tail(job_ids), Tail(oks))

\* submit_batch, lines 136-155: ids and job states for every request
SubmitBatchState ==
    /\ bpc = "idle"
    /\ \E n \in 1..MaxBatch :
         /\ nextId + n <= MaxJobs
         /\ \E reqs \in {[i \in 1..n |-> RequestFor(nextId + i)]} :
              /\ bjobs' = [i \in 1..n |-> <<nextId + i, reqs[i]>>]
              /\ job_states' = [id \in JobIds |->
                                  IF id \in (nextId + 1)..(nextId + n)
                                    THEN NewJobState(reqs[id - nextId])
                                    ELSE job_states[id]]
         /\ nextId' = nextId + n
    /\ bpc' = "enqueue_batch"
    /\ ret' = NoRet
    /\ UNCHANGED <<qmVars, lock, configVars, workerVars, bapp, bbase, submitted,
                   attempts, requeues,
                   sleep_log, logVars, recoveryVars>>

SubmitBatchBegin ==
    /\ SubmitBatchState
    /\ \E oks \in [1..Len(bjobs') -> DbOutcomes] :
         table' = create_batch_records(table, [i \in 1..Len(bjobs') |-> bjobs'[i][1]], oks)

\* enqueue_batch that runs its loop without taking the lock
BatchAcquire_unlocked ==
    /\ bpc = "enqueue_batch"
    /\ lock = "free"
    /\ lock' = "free"
    /\ bpc' = "appending"
    /\ bapp' = 0
    /\ bbase' = Len(queue)
    /\ ret' = NoRet
    /\ UNCHANGED <<qmVars, job_states, configVars, nextId, workerVars, bjobs,
                   submitted, attempts, requeues,
                   sleep_log, table, logVars, recoveryVars>>

\* enqueue_batch, line 131: with self._lock
BatchAcquire ==
    /\ bpc = "enqueue_batch"
    /\ lock = "free"
    /\ lock' = "batch"
    /\ bpc' = "appending"
    /\ bapp' = 0
    /\ bbase' = Len(queue)
    /\ ret' = NoRet
    /\ UNCHANGED <<qmVars, job_states, configVars, nextId, workerVars, bjobs,
                   submitted, attempts, requeues,
                   sleep_log, table, logVars, recoveryVars>>

\* enqueue_batch, lines 132-135: one iteration of the loop
BatchAppend ==
    /\ bpc = "appending"
    /\ bapp < Len(bjobs)
    /\ queue' = Append(queue, QueuedJob(bjobs[bapp + 1][1], bjobs[bapp + 1][2], 0))
    /\ stats' = [stats EXCEPT !.total_enqueued = @ + 1]
    /\ bapp' = bapp + 1
    /\ ret' = NoRet
    /\ UNCHANGED <<current_job, lock, job_states, configVars, nextId, workerVars,
                   bpc, bjobs, bbase, submitted, attempts, requeues,
                   sleep_log, table, logVars, recoveryVars>>

\* enqueue_batch leaves the with block; submit_batch returns the ids
BatchRelease ==
    /\ bpc = "appending"
    /\ bapp = Len(bjobs)
    /\ lock' = "free"
    /\ bpc' = "idle"
    /\ submitted' = submitted \cup {bjobs[i][1] : i \in 1..Len(bjobs)}
    /\ bjobs' = <<>>
    /\ bapp' = 0
    /\ bbase' = 0
    /\ ret' = NoRet
    /\ UNCHANGED <<qmVars, job_states, configVars, nextId, workerVars,
                   attempts, requeues,
                   sleep_log, table, logVars, recoveryVars>>

\* ------------------------------------------------- worker: process_next_job
\* line 221: job = self.queue_manager.dequeue()
WorkerDequeue ==
    /\ wpc = "idle"
    /\ lock = "free"
    /\ queue # <<>>
    /\ dequeue
    /\ wjob' = current_job'
    /\ wpc' = "dequeued"
    /\ ret' = NoRet
    /\ UNCHANGED <<lock, job_states, configVars, nextId, batchVars, submitted,
                   attempts, requeues,
                   sleep_log, table, logVars, recoveryVars>>

\* line 282: PROCESSING / LOADING_MODEL
WorkerStartState ==
    /\ wpc = "dequeued"
    /\ update_progress(wjob.job_id, "processing", "loading_model")
    /\ attempts' = [attempts EXCEPT ![wjob.job_id] = @ + 1]
    /\ wpc' = "loading_model"
    /\ ret' = NoRet
    /\ UNCHANGED <<qmVars, lock, configVars, nextId, wjob, batchVars, submitted,
                   requeues,
                   sleep_log, logVars, recoveryVars>>

WorkerStart ==
    /\ WorkerStartState
    /\ \E ok \in DbOutcomes :
         table' = update_database_status(table, wjob.job_id, "processing", {}, ok)

\* the engine as a test scripts it (Mock side_effect on generate_audio): the
\* first script[job_id] calls of generate_audio for the job raise, the later
\* ones return; -1 stands for an engine whose calls may all go either way
generate_audio_raises(job_id) ==
    script[job_id] = -1 \/ (wpc = "generating" /\ attempts[job_id] <= script[job_id])

generate_audio_returns(job_id) ==
    script[job_id] = -1 \/ wpc # "generating" \/ attempts[job_id] > script[job_id]

\* one pipeline call returns and the next progress update is made
WorkerAdvanceState(from, status, step, to) ==
    /\ wpc = from
    /\ generate_audio_returns(wjob.job_id)
    /\ update_progress(wjob.job_id, status, step)
    /\ wpc' = to
    /\ ret' = NoRet
    /\ UNCHANGED <<qmVars, lock, configVars, nextId, wjob, batchVars, submitted,
                   attempts, requeues,
                   sleep_log, logVars, recoveryVars>>

WorkerAdvance(from, status, step, to) ==
    /\ WorkerAdvanceState(from, status, step, to)
    /\ \E ok \in DbOutcomes :
         table' = update_database_status(table, wjob.job_id, status, {}, ok)

\* lines 286-290: load_model returned
WorkerEncoding == WorkerAdvance("loading_model", "processing", "encoding_prompt", "encoding_prompt")
\* lines 293-302: set_generation_params returned
WorkerGenerating == WorkerAdvance("encoding_prompt", "processing", "generating", "generating")
\* lines 305-315: generate_audio returned
WorkerSaving == WorkerAdvance("generating", "processing", "saving", "saving")
\* lines 318-330: save_audio returned
WorkerCompleted == WorkerAdvance("saving", "completed", "completed", "completed")

\* places of _generate_with_progress inside its try block (lines 284-354)
TryBlock == {"loading_model", "encoding_prompt", "generating", "saving", "completed"}

\* an error handling that treats an error of save_audio as fatal: no retry
\* decision, the final-failure path at once
WorkerRaise_saving_fatal ==
    /\ wpc \in TryBlock
    /\ generate_audio_raises(wjob.job_id)
    /\ IF wpc = "saving"
         THEN /\ job_states' = [job_states EXCEPT
                                   ![wjob.job_id].status = "failed",
                                   ![wjob.job_id].current_step = "failed",
                                   ![wjob.job_id].error_message = {"last_error"},
                                   ![wjob.job_id].completed_at = TRUE]
              /\ wpc' = "fail_job"
         ELSE /\ wpc' = "except"
              /\ UNCHANGED job_states
    /\ ret' = NoRet
    /\ UNCHANGED <<qmVars, lock, configVars, nextId, wjob, batchVars,
                   submitted, attempts, requeues,
                   sleep_log, table, logVars, recoveryVars>>

\* lines 356-358 and 249-251: an error raised inside the try block reaches
\* the handler of process_next_job
WorkerRaise ==
    /\ wpc \in TryBlock
    /\ generate_audio_raises(wjob.job_id)
    /\ wpc' = "except"
    /\ ret' = NoRet
    /\ UNCHANGED <<qmVars, lock, job_states, configVars, nextId, wjob, batchVars,
                   submitted, attempts, requeues,
                   sleep_log, table, logVars, recoveryVars>>

\* a success path that reports the record's id to complete_job, not the
\* job's
WorkerCompleteState_record_id ==
    /\ wpc = "completed"
    /\ lock = "free"
    /\ complete_job(RecordId(wjob.job_id))
    /\ IF job_states[wjob.job_id].status # "none"
         THEN job_states' = [job_states EXCEPT ![wjob.job_id].status = "completed",
                                               ![wjob.job_id].current_step = "completed",
                                               ![wjob.job_id].completed_at = TRUE]
         ELSE UNCHANGED job_states
    /\ wpc' = "idle"
    /\ wjob' = NoJob
    /\ ret' = NoRet
    /\ UNCHANGED <<lock, configVars, nextId, batchVars, submitted, attempts, requeues,
                   sleep_log, logVars, recoveryVars>>

\* lines 332-354 return the result; lines 237-247
WorkerCompleteState ==
    /\ wpc = "completed"
    /\ lock = "free"
    /\ complete_job(wjob.job_id)
    /\ IF job_states[wjob.job_id].status # "none"
         THEN job_states' = [job_states EXCEPT ![wjob.job_id].status = "completed",
                                               ![wjob.job_id].current_step = "completed",
                                               ![wjob.job_id].completed_at = TRUE]
         ELSE UNCHANGED job_states
    /\ wpc' = "idle"
    /\ wjob' = NoJob
    /\ ret' = NoRet
    /\ UNCHANGED <<lock, configVars, nextId, batchVars, submitted, attempts, requeues,
                   sleep_log, logVars, recoveryVars>>

WorkerComplete ==
    /\ WorkerCompleteState
    /\ \E ok \in DbOutcomes : table' = complete_database_record(table, wjob.job_id, ok)

\* the retry test with <= in place of <
should_retry_inclusive(retry_count) == retry_count <= max_retries

\* line 254
should_retry(retry_count) == retry_count < max_retries

\* _handle_failure that records the error and leaves status and step alone
handle_failure_keep_status(job_id, retry_count) ==
    IF job_states[job_id].status # "none"
      THEN job_states' = [job_states EXCEPT ![job_id].error_message = {"last_error"},
                                            ![job_id].retry_count = retry_count,
                                            ![job_id].completed_at = TRUE]
      ELSE UNCHANGED job_states

\* _handle_failure that stores 0 as the job's retry_count
handle_failure_reset(job_id, retry_count) ==
    IF job_states[job_id].status # "none"
      THEN job_states' = [job_states EXCEPT ![job_id].status = "failed",
                                            ![job_id].current_step = "failed",
                                            ![job_id].error_message = {"last_error"},
                                            ![job_id].retry_count = 0,
                                            ![job_id].completed_at = TRUE]
      ELSE UNCHANGED job_states

\* _handle_failure that leaves completed_at unset
handle_failure_no_completed_at(job_id, retry_count) ==
    IF job_states[job_id].status # "none"
      THEN job_states' = [job_states EXCEPT ![job_id].status = "failed",
                                            ![job_id].current_step = "failed",
                                            ![job_id].error_message = {"last_error"},
                                            ![job_id].retry_count = retry_count]
      ELSE UNCHANGED job_states

\* _handle_failure, lines 430-438
handle_failure(job_id, retry_count) ==
    IF job_states[job_id].status # "none"
      THEN job_states' = [job_states EXCEPT ![job_id].status = "failed",
                                            ![job_id].current_step = "failed",
                                            ![job_id].error_message = {"last_error"},
                                            ![job_id].retry_count = retry_count,
                                            ![job_id].completed_at = TRUE]
      ELSE UNCHANGED job_states

\* the delay with retry_count + 1 in place of 2 ** retry_count
backoff_delay_linear(retry_count) == retry_delay * (retry_count + 1)

\* _handle_retry, line 395
backoff_delay(retry_count) == retry_delay * (2 ^ retry_count)

\* a retry path that re-enqueues the job first and sleeps afterwards
WorkerExcept_enqueue_first ==
    /\ wpc = "except"
    /\ lock = "free"
    /\ IF should_retry(wjob.retry_count)
         THEN /\ wpc' = "backoff"
              /\ sleep_log' = [sleep_log EXCEPT ![wjob.job_id] =
                                  Append(@, backoff_delay(wjob.retry_count))]
              /\ enqueue(wjob.job_id, wjob.request, wjob.retry_count + 1)
              /\ UNCHANGED job_states
         ELSE /\ handle_failure(wjob.job_id, wjob.retry_count)
              /\ wpc' = "fail_job"
              /\ UNCHANGED <<sleep_log, qmVars>>
    /\ ret' = NoRet
    /\ UNCHANGED <<lock, configVars, nextId, wjob, batchVars, submitted,
                   attempts, requeues,
                   table, logVars, recoveryVars>>

\* a retry path that takes the queue's lock before it sleeps
WorkerExceptState_sleeps_locked ==
    /\ wpc = "except"
    /\ IF should_retry(wjob.retry_count)
         THEN /\ wpc' = "backoff"
              /\ lock = "free"
              /\ lock' = "worker"
              /\ sleep_log' = [sleep_log EXCEPT ![wjob.job_id] =
                                  Append(@, backoff_delay(wjob.retry_count))]
              /\ UNCHANGED job_states
         ELSE /\ handle_failure(wjob.job_id, wjob.retry_count)
              /\ wpc' = "fail_job"
              /\ UNCHANGED <<sleep_log, lock>>
    /\ ret' = NoRet
    /\ UNCHANGED <<qmVars, configVars, nextId, wjob, batchVars, submitted,
                   attempts, requeues,
                   logVars, recoveryVars>>

\* lines 254-257: the retry decision; _handle_retry starts its sleep (403),
\* _handle_failure runs to its end
WorkerExceptState ==
    /\ wpc = "except"
    /\ IF should_retry(wjob.retry_count)
         THEN /\ wpc' = "backoff"
              /\ sleep_log' = [sleep_log EXCEPT ![wjob.job_id] =
                                  Append(@, backoff_delay(wjob.retry_count))]
              /\ UNCHANGED job_states
         ELSE /\ handle_failure(wjob.job_id, wjob.retry_count)
              /\ wpc' = "fail_job"
              /\ UNCHANGED sleep_log
    /\ ret' = NoRet
    /\ UNCHANGED <<qmVars, lock, configVars, nextId, wjob, batchVars, submitted,
                   attempts, requeues,
                   logVars, recoveryVars>>

\* _handle_failure, lines 441-446: the message stored with the Failed status
WorkerExcept ==
    /\ WorkerExceptState
    /\ IF should_retry(wjob.retry_count)
         THEN UNCHANGED table
         ELSE \E ok \in DbOutcomes :
                table' = update_database_status(table, wjob.job_id, "failed",
                                                {"last_error", "retry_count"}, ok)

\* a retry path that re-enqueues the job with a request of its own making
WorkerRetryEnqueue_other_request ==
    /\ wpc = "backoff"
    /\ lock = "free"
    /\ enqueue(wjob.job_id, RequestFor(wjob.job_id + 1), wjob.retry_count + 1)
    /\ requeues' = [requeues EXCEPT ![wjob.job_id] = @ + 1]
    /\ wpc' = "retry_state"
    /\ ret' = NoRet
    /\ UNCHANGED <<lock, job_states, configVars, nextId, wjob, batchVars, submitted,
                   attempts,
                   sleep_log, table, logVars, recoveryVars>>

\* a retry path that re-enqueues the job with its retry_count as it was
WorkerRetryEnqueue_same_count ==
    /\ wpc = "backoff"
    /\ lock = "free"
    /\ enqueue(wjob.job_id, wjob.request, wjob.retry_count)
    /\ requeues' = [requeues EXCEPT ![wjob.job_id] = @ + 1]
    /\ wpc' = "retry_state"
    /\ ret' = NoRet
    /\ UNCHANGED <<lock, job_states, configVars, nextId, wjob, batchVars, submitted,
                   attempts,
                   sleep_log, table, logVars, recoveryVars>>

\* lines 403-406: the sleep returns and the job is re-enqueued
WorkerRetryEnqueue ==
    /\ wpc = "backoff"
    /\ lock = "free"
    /\ enqueue(wjob.job_id, wjob.request, wjob.retry_count + 1)
    /\ requeues' = [requeues EXCEPT ![wjob.job_id] = @ + 1]
    /\ wpc' = "retry_state"
    /\ ret' = NoRet
    /\ UNCHANGED <<lock, job_states, configVars, nextId, wjob, batchVars, submitted,
                   attempts,
                   sleep_log, table, logVars, recoveryVars>>

\* _handle_retry that bumps retry_count but leaves status and step alone
retry_state_keep_status(job_id, retry_count) ==
    IF job_states[job_id].status # "none"
      THEN job_states' = [job_states EXCEPT ![job_id].retry_count = retry_count + 1]
      ELSE UNCHANGED job_states

\* _handle_retry that resets status and step but never stores retry_count
retry_state_no_count(job_id, retry_count) ==
    IF job_states[job_id].status # "none"
      THEN job_states' = [job_states EXCEPT ![job_id].status = "pending",
                                            ![job_id].current_step = "queued"]
      ELSE UNCHANGED job_states

\* _handle_retry that also stores the error of the failed attempt
retry_state_records_error(job_id, retry_count) ==
    IF job_states[job_id].status # "none"
      THEN job_states' = [job_states EXCEPT ![job_id].retry_count = retry_count + 1,
                                            ![job_id].status = "pending",
                                            ![job_id].current_step = "queued",
                                            ![job_id].error_message = {"last_error"}]
      ELSE UNCHANGED job_states

\* lines 409-412
retry_state(job_id, retry_count) ==
    IF job_states[job_id].status # "none"
      THEN job_states' = [job_states EXCEPT ![job_id].retry_count = retry_count + 1,
                                            ![job_id].status = "pending",
                                            ![job_id].current_step = "queued"]
      ELSE UNCHANGED job_states

WorkerRetryState ==
    /\ wpc = "retry_state"
    /\ retry_state(wjob.job_id, wjob.retry_count)
    /\ wpc' = "fail_job"
    /\ ret' = NoRet
    /\ UNCHANGED <<qmVars, lock, configVars, nextId, wjob, batchVars, submitted,
                   attempts, requeues,
                   sleep_log, table, logVars, recoveryVars>>

\* a failure count per job: the current slot is emptied after every failed
\* attempt, the counter moves only when the job has failed for good
WorkerFailJob_counts_jobs ==
    /\ wpc = "fail_job"
    /\ lock = "free"
    /\ IF job_states[wjob.job_id].status = "failed"
         THEN fail_job(wjob.job_id)
         ELSE current_job' = NoJob /\ UNCHANGED <<queue, stats>>
    /\ wpc' = "idle"
    /\ wjob' = NoJob
    /\ ret' = NoRet
    /\ UNCHANGED <<lock, job_states, configVars, nextId, batchVars, submitted,
                   attempts, requeues,
                   sleep_log, table, logVars, recoveryVars>>

\* line 259
WorkerFailJob ==
    /\ wpc = "fail_job"
    /\ lock = "free"
    /\ fail_job(wjob.job_id)
    /\ wpc' = "idle"
    /\ wjob' = NoJob
    /\ ret' = NoRet
    /\ UNCHANGED <<lock, job_states, configVars, nextId, batchVars, submitted,
                   attempts, requeues,
                   sleep_log, table, logVars, recoveryVars>>

\* ------------------------------------------------------------ the service
InitQueueManager ==
    /\ queue = <<>>
    /\ current_job = NoJob
    /\ stats = [total_enqueued |-> 0, total_completed |-> 0,
                total_failed |-> 0, total_cancelled |-> 0]
    /\ lock = "free"

InitService ==
    /\ job_states = [id \in JobIds |-> NoState]
    /\ nextId = 0
    /\ wpc = "idle"
    /\ wjob = NoJob
    /\ bpc = "idle"
    /\ bjobs = <<>>
    /\ bapp = 0
    /\ bbase = 0
    /\ submitted = {}
    /\ attempts = [id \in JobIds |-> 0]
    /\ requeues = [id \in JobIds |-> 0]
    /\ sleep_log = [id \in JobIds |-> <<>>]
    /\ table = <<>>
    /\ ret = NoRet

InitLogs ==
    /\ enq_log = <<>>
    /\ deq_log = <<>>
    /\ phase = "enqueue"

\* no db_session_factory: nothing to recover
InitNoStore ==
    /\ store = <<>>
    /\ query_accepts = TRUE
    /\ recovered = -1

\* the constructor's default retry_delay and an engine that is not scripted
InitEngine ==
    /\ retry_delay = DefaultRetryDelay
    /\ script = [id \in JobIds |-> -1]
    /\ db_on = FALSE

Init ==
    /\ InitQueueManager
    /\ InitService
    /\ InitEngine
    /\ max_retries \in 0..MaxRetryLimit
    /\ InitLogs
    /\ InitNoStore

Next ==
    \/ SubmitJob
    \/ \E job_id \in JobIds : CancelJob(job_id)
    \/ SubmitBatchBegin
    \/ BatchAcquire
    \/ BatchAppend
    \/ BatchRelease
    \/ WorkerDequeue
    \/ WorkerStart
    \/ WorkerEncoding
    \/ WorkerGenerating
    \/ WorkerSaving
    \/ WorkerCompleted
    \/ WorkerRaise
    \/ WorkerComplete
    \/ WorkerExcept
    \/ WorkerRetryEnqueue
    \/ WorkerRetryState
    \/ WorkerFailJob

Spec == Init /\ [][Next]_vars

\* one step of process_next_job, whichever it is
WorkerStep ==
    \/ WorkerDequeue
    \/ WorkerStart
    \/ WorkerEncoding
    \/ WorkerGenerating
    \/ WorkerSaving
    \/ WorkerCompleted
    \/ WorkerRaise
    \/ WorkerComplete
    \/ WorkerExcept
    \/ WorkerRetryEnqueue
    \/ WorkerRetryState
    \/ WorkerFailJob

\* the service with single submissions and cancellations and a worker loop
\* that keeps calling process_next_job, every pipeline call of which returns
\* or raises
NextFair ==
    \/ SubmitJob
    \/ \E job_id \in JobIds : CancelJob(job_id)
    \/ WorkerStep

FairSpec == Init /\ [][NextFair]_vars /\ WF_vars(WorkerStep)

TypeOK ==
    /\ lock \in {"free", "batch"}
    /\ nextId \in 0..MaxJobs
    /\ \A id \in JobIds : job_states[id].status \in
           {"none", "pending", "processing", "completed", "failed", "cancelled"}

\* ------------------------------------ the service with a db_session_factory
\* every persistence call may return or raise
InitPersist ==
    /\ InitQueueManager
    /\ InitService
    /\ max_retries \in {0, 1}
    /\ retry_delay = DefaultRetryDelay
    /\ script = [id \in JobIds |-> -1]
    /\ db_on = TRUE
    /\ InitLogs
    /\ InitNoStore

NextPersist ==
    \/ SubmitJob
    \/ \E job_id \in JobIds : CancelJob(job_id)
    \/ WorkerStep

SpecPersist == InitPersist /\ [][NextPersist]_vars

\* ------------------------------------------ the service drawing its job ids
\* submit_job, line 94: job_id = "gen_" + uuid4().hex[:8], a random draw from
\* the id space; nothing compares it with the ids issued before
SubmitJobDrawn(job_id) ==
    /\ lock = "free"
    /\ stats.total_enqueued < MaxEnqueues
    /\ job_states' = [job_states EXCEPT ![job_id] = NewJobState(RequestFor(job_id))]
    /\ enqueue(job_id, RequestFor(job_id), 0)
    /\ submitted' = submitted \cup {job_id}
    /\ ret' = [op |-> "submit", value |-> TRUE]
    /\ \E ok \in DbOutcomes : table' = create_database_record(table, job_id, ok)
    /\ UNCHANGED <<lock, configVars, nextId, workerVars, batchVars, attempts, requeues,
                   sleep_log, logVars, recoveryVars>>

NextDrawn ==
    \/ \E job_id \in JobIds : SubmitJobDrawn(job_id)
    \/ \E job_id \in JobIds : CancelJob(job_id)
    \/ WorkerStep

SpecDrawn == Init /\ [][NextDrawn]_vars

\* ------------------------------------------- the service with a scripted engine
\* (as tests/unit/test_retry_logic.py runs it: jobs are submitted, the mocked
\* generate_audio raises a fixed number of times for one job, and
\* process_next_job is called until the queue is empty)
ScriptFor(failing, n) == [id \in JobIds |-> IF id = failing THEN n ELSE 0]

InitScript ==
    /\ InitQueueManager
    /\ InitService
    /\ max_retries \in 0..MaxScript
    /\ retry_delay \in 1..MaxDelay
    /\ \E failing \in JobIds, n \in 0..MaxScript : script = ScriptFor(failing, n)
    /\ db_on = FALSE
    /\ InitLogs
    /\ InitNoStore

NextScript ==
    \/ SubmitJob
    \/ WorkerDequeue
    \/ WorkerStart
    \/ WorkerEncoding
    \/ WorkerGenerating
    \/ WorkerSaving
    \/ WorkerCompleted
    \/ WorkerRaise
    \/ WorkerComplete
    \/ WorkerExcept
    \/ WorkerRetryEnqueue
    \/ WorkerRetryState
    \/ WorkerFailJob

SpecScript == InitScript /\ [][NextScript]_vars

\* ------------------------------------ the QueueManager driven by a caller
\* (as the unit tests of tests/unit/test_queue_persistence.py drive it)
MaxDequeues == MaxEnqueues + 1

QEnqueue(job_id, retry_count) ==
    /\ Len(enq_log) < MaxEnqueues
    /\ enqueue(job_id, RequestFor(job_id), retry_count)
    /\ enq_log' = Append(enq_log, job_id)
    /\ phase' = IF phase = "enqueue" THEN "enqueue" ELSE "other"
    /\ ret' = NoRet
    /\ UNCHANGED <<deq_log, serviceVars, recoveryVars>>

QDequeue ==
    /\ Len(deq_log) < MaxDequeues
    /\ dequeue
    /\ deq_log' = Append(deq_log, IF queue = <<>> THEN 0 ELSE current_job'.job_id)
    /\ phase' = IF phase = "other" THEN "other" ELSE "dequeue"
    /\ ret' = NoRet
    /\ UNCHANGED <<enq_log, serviceVars, recoveryVars>>

QCancelJob(job_id) ==
    /\ cancel_job_queue(job_id)
    /\ ret' = [op |-> "cancel", value |-> cancel_found(job_id)]
    /\ phase' = "other"
    /\ UNCHANGED <<enq_log, deq_log, serviceVars, recoveryVars>>

\* QueueManager.clear
QClear ==
    /\ queue' = <<>>
    /\ phase' = "other"
    /\ ret' = NoRet
    /\ UNCHANGED <<current_job, stats, enq_log, deq_log, serviceVars, recoveryVars>>

InitQueue ==
    /\ InitQueueManager
    /\ InitService
    /\ max_retries = 0
    /\ InitEngine
    /\ InitLogs
    /\ InitNoStore

NextQueue ==
    \/ \E job_id \in JobIds : QEnqueue(job_id, 0)
    \/ QDequeue
    \/ \E job_id \in JobIds : QCancelJob(job_id)
    \/ QClear

SpecQueue == InitQueue /\ [][NextQueue]_vars

\* ------------------------- the current-job slot driven by a caller
\* complete_job and fail_job return None; ret records whether the id matched
\* the current job (the branch that logs "Job completed" / "Job failed")
QCompleteJob(job_id) ==
    /\ complete_job(job_id)
    /\ ret' = [op |-> "complete_job", value |-> IsCurrent(job_id)]
    /\ UNCHANGED <<logVars, serviceVars, recoveryVars>>

QFailJob(job_id) ==
    /\ fail_job(job_id)
    /\ ret' = [op |-> "fail_job", value |-> IsCurrent(job_id)]
    /\ UNCHANGED <<logVars, serviceVars, recoveryVars>>

\* enqueue and dequeue by the same caller, who keeps no log of them
CEnqueue(job_id) ==
    /\ stats.total_enqueued < MaxEnqueues
    /\ enqueue(job_id, RequestFor(job_id), 0)
    /\ ret' = NoRet
    /\ UNCHANGED <<logVars, serviceVars, recoveryVars>>

CDequeue ==
    /\ dequeue
    /\ ret' = [op |-> "dequeue", value |-> queue # <<>>]
    /\ UNCHANGED <<logVars, serviceVars, recoveryVars>>

NextCurrent ==
    \/ \E job_id \in JobIds : CEnqueue(job_id)
    \/ CDequeue
    \/ \E job_id \in JobIds : QCompleteJob(job_id)
    \/ \E job_id \in JobIds : QFailJob(job_id)

SpecCurrent == InitQueue /\ [][NextCurrent]_vars

\* ------------------------------- the queue's counters, single-worker use
\* enqueue_batch that counts one enqueue for the whole batch
enqueue_batch_counts_once(jobs) ==
    /\ queue' = queue \o [i \in 1..Len(jobs) |-> QueuedJob(jobs[i][1], jobs[i][2], 0)]
    /\ stats' = [stats EXCEPT !.total_enqueued = @ + 1]
    /\ UNCHANGED current_job

\* enqueue_batch as one call: the lock is held from the first append to the
\* last
enqueue_batch(jobs) ==
    /\ queue' = queue \o [i \in 1..Len(jobs) |-> QueuedJob(jobs[i][1], jobs[i][2], 0)]
    /\ stats' = [stats EXCEPT !.total_enqueued = @ + Len(jobs)]
    /\ UNCHANGED current_job

LedgerIds == {id \in JobIds : id <= 2}

LEnqueue(job_id) ==
    /\ stats.total_enqueued < MaxLedger
    /\ enqueue(job_id, RequestFor(job_id), 0)
    /\ ret' = NoRet
    /\ UNCHANGED <<logVars, serviceVars, recoveryVars>>

LEnqueueBatch ==
    /\ \E n \in 0..MaxBatch :
         /\ stats.total_enqueued + n <= MaxLedger
         /\ \E ids \in [1..n -> LedgerIds] :
              enqueue_batch([i \in 1..n |-> <<ids[i], RequestFor(ids[i])>>])
    /\ ret' = NoRet
    /\ UNCHANGED <<logVars, serviceVars, recoveryVars>>

\* the worker asks for the next job only when it holds none
LDequeue ==
    /\ current_job = NoJob
    /\ CDequeue

NextLedger ==
    \/ \E job_id \in LedgerIds : LEnqueue(job_id)
    \/ LEnqueueBatch
    \/ LDequeue
    \/ \E job_id \in LedgerIds : QCompleteJob(job_id)
    \/ \E job_id \in LedgerIds : QFailJob(job_id)
    \/ \E job_id \in LedgerIds : QCancelJob(job_id)

SpecLedger == InitQueue /\ [][NextLedger]_vars

\* --------------------------------------------- recovery at startup
RecoverLimit == 1000

StoredStatuses == {"pending", "processing", "completed"}

\* created_at values of the stored records: pairwise different
CreationOrders == {f \in [StoreIds -> 1..MaxStore] :
                     \A a, b \in StoreIds : a # b => f[a] # f[b]}

\* get_generations_by_status: order_by(desc(created_at)), limit
RECURSIVE OrderDescCreated(_)
OrderDescCreated(ids) ==
    IF ids = {} THEN <<>>
    ELSE LET newest == CHOOSE a \in ids :
                           \A b \in ids : store[a].created_at >= store[b].created_at
         IN  <<newest>> \o OrderDescCreated(ids \ {newest})

Take(q, n) == SubSeq(q, 1, IF Len(q) < n THEN Len(q) ELSE n)

get_pending_generations(limit) ==
    Take(OrderDescCreated({id \in StoreIds : store[id].status = "pending"}), limit)

\* lines 326-347: the records whose GenerationRequest can be rebuilt, as
\* QueuedJobs with retry_count 0, in the order of the query result
RECURSIVE LoadPending(_)
LoadPending(gens) ==
    IF gens = <<>> THEN <<>>
    ELSE (IF store[Head(gens)].loadable
            THEN <<QueuedJob(Head(gens), RequestFor(Head(gens)), 0)>>
            ELSE <<>>) \o LoadPending(Tail(gens))

\* load_from_database that counts the loaded jobs as enqueued
Recover_counts_enqueued ==
    /\ recovered = -1
    /\ IF query_accepts
         THEN /\ store' = [id \in StoreIds |->
                             IF store[id].status = "processing"
                               THEN [store[id] EXCEPT !.status = "failed",
                                                      !.error_message = TRUE]
                               ELSE store[id]]
              /\ queue' = queue \o LoadPending(get_pending_generations(RecoverLimit))
              /\ recovered' = Len(LoadPending(get_pending_generations(RecoverLimit)))
              /\ stats' = [stats EXCEPT !.total_enqueued =
                              @ + Len(LoadPending(get_pending_generations(RecoverLimit)))]
         ELSE /\ recovered' = 0
              /\ UNCHANGED <<store, queue, stats>>
    /\ ret' = NoRet
    /\ UNCHANGED <<current_job, serviceVars, logVars, query_accepts>>

\* load_from_database with a db_session_factory
Recover ==
    /\ recovered = -1
    /\ IF query_accepts
         THEN /\ store' = [id \in StoreIds |->
                             IF store[id].status = "processing"
                               THEN [store[id] EXCEPT !.status = "failed",
                                                      !.error_message = TRUE]
                               ELSE store[id]]
              /\ queue' = queue \o LoadPending(get_pending_generations(RecoverLimit))
              /\ recovered' = Len(LoadPending(get_pending_generations(RecoverLimit)))
         ELSE \* lines 310-312 raise, lines 356-358 return 0
              /\ recovered' = 0
              /\ UNCHANGED <<store, queue>>
    /\ ret' = NoRet
    /\ UNCHANGED <<current_job, stats, serviceVars, logVars, query_accepts>>

\* the worker's dequeue once the service runs
RDequeue ==
    /\ recovered # -1
    /\ Len(deq_log) <= MaxStore
    /\ dequeue
    /\ deq_log' = Append(deq_log, IF queue = <<>> THEN 0 ELSE current_job'.job_id)
    /\ ret' = NoRet
    /\ UNCHANGED <<enq_log, phase, serviceVars, recoveryVars>>

InitRecover ==
    /\ InitQueueManager
    /\ InitService
    /\ max_retries = 0
    /\ InitEngine
    /\ InitLogs
    /\ \E created \in CreationOrders :
         store \in [StoreIds -> {r \in [status : StoredStatuses,
                                        stored_status : StoredStatuses,
                                        created_at : 1..MaxStore,
                                        error_message : {FALSE},
                                        loadable : BOOLEAN] :
                                   r.stored_status = r.status}]
         /\ \A id \in StoreIds : store[id].created_at = created[id]
    /\ query_accepts \in BOOLEAN
    /\ recovered = -1

NextRecover ==
    \/ Recover
    \/ RDequeue

SpecRecover == InitRecover /\ [][NextRecover]_vars

\* ================================================================ claims
StatusOf(job_id) == job_states[job_id].status
InQueue(job_id) == job_id \in QueueIds(queue)

\* C1: at every reachable state of the service, with the single worker and
\* any interleaving of submissions and cancellations, at most one job has
\* status Processing.
C1_AtMostOneProcessing ==
    Cardinality({job_id \in JobIds : StatusOf(job_id) = "processing"}) <= 1

\* one job is being processed after another job went through the retry path
\* and is pending again, while a third caller has cancelled a job
C1_Witness ==
    \E a, b \in JobIds :
        /\ a # b
        /\ StatusOf(a) = "processing"
        /\ StatusOf(b) = "pending" /\ requeues[b] >= 1 /\ InQueue(b)
        /\ \E c \in JobIds : StatusOf(c) = "cancelled"

\* C3: a job is re-enqueued at most max_retries times and attempted at most
\* max_retries + 1 times; the attempt made with retry_count = max_retries
\* that fails takes the final-failure path; and a job that is Failed has
\* been re-enqueued exactly max_retries times, attempted exactly
\* max_retries + 1 times and has retry_count = max_retries.
C3_RetryBound ==
    /\ \A job_id \in JobIds :
         /\ requeues[job_id] <= max_retries
         /\ attempts[job_id] <= max_retries + 1
         /\ StatusOf(job_id) = "failed" =>
              /\ requeues[job_id] = max_retries
              /\ attempts[job_id] = max_retries + 1
              /\ job_states[job_id].retry_count = max_retries
    /\ (wpc = "fail_job" /\ attempts[wjob.job_id] = max_retries + 1) =>
         /\ StatusOf(wjob.job_id) = "failed"
         /\ ~InQueue(wjob.job_id)

\* a job has failed for good after its one retry
C3_Witness ==
    \E job_id \in JobIds :
        /\ max_retries = 1
        /\ StatusOf(job_id) = "failed"
        /\ attempts[job_id] = 2
        /\ requeues[job_id] = 1

\* C4: once a job's status is Completed, Failed or Cancelled, no step
\* changes it to another value.
C4_TerminalNeverOverwritten ==
    [][\A job_id \in JobIds :
          StatusOf(job_id) \in TerminalStatuses =>
              job_states'[job_id].status = StatusOf(job_id)]_vars

\* C5: CancelJob on a submitted job whose status is Pending returns true and
\* leaves the id neither pending nor current.
C5_CancelPendingSucceeds ==
    [][\A job_id \in JobIds :
          (CancelJob(job_id) /\ job_id \in submitted /\ StatusOf(job_id) = "pending") =>
              /\ ret'.value = TRUE
              /\ job_id \notin QueueIds(queue')
              /\ current_job'.job_id # job_id]_vars

\* C6: CancelJob on a job that is Processing, Completed or Failed, or on an
\* id that was never submitted, returns false and changes neither the
\* pending list, the current job, the counters nor any job's state.
C6_CancelFrame ==
    [][\A job_id \in JobIds :
          StatusOf(job_id) \in {"processing", "completed", "failed", "none"} =>
              \/ /\ ret'.value = FALSE
                 /\ UNCHANGED <<queue, current_job, stats, job_states>>
              \/ ~CancelJob(job_id)]_vars

\* a cancel was refused for a job that is being processed and is, at the same
\* time, back in the pending list (re-enqueued but not yet reset to Pending);
\* every other job could have been cancelled, so the refused call was for it
C6_Witness ==
    /\ ret.op = "cancel"
    /\ ret.value = FALSE
    /\ \E job_id \in JobIds :
          /\ StatusOf(job_id) = "processing"
          /\ InQueue(job_id)
          /\ \A other \in JobIds \ {job_id} : cancel_found(other)

BatchVisible == IF bpc = "appending" THEN bapp ELSE 0

\* C10: whenever another caller can run a queue operation (the lock is
\* free), none or all of the running batch has been appended; and when the
\* loop of enqueue_batch has finished, Stats reports pending = p + n and the
\* batch occupies the last n positions of the pending list in the given order.
C10_BatchAtomic ==
    /\ lock = "free" => BatchVisible \in {0, Len(bjobs)}
    /\ (bpc = "appending" /\ bapp = Len(bjobs)) =>
         /\ get_stats.pending_jobs = bbase + Len(bjobs)
         /\ \A i \in 1..Len(bjobs) : queue[bbase + i].job_id = bjobs[i][1]

\* a batch of two has been appended behind a re-enqueued entry while the
\* worker is still inside the retry path of that job
C10_Witness ==
    /\ bpc = "appending"
    /\ Len(bjobs) = 2
    /\ bapp = 2
    /\ bbase >= 1
    /\ wpc = "retry_state"

Distinct(log) == \A i, j \in 1..Len(log) : i # j => log[i] # log[j]

\* C2: after enqueues of distinct ids with no dequeue, cancel or clear in
\* between, the k-th dequeue returns the k-th enqueued entry, and every
\* dequeue after the last entry returns empty.
C2_FifoOrder ==
    (phase # "other" /\ Distinct(enq_log)) =>
        \A i \in 1..Len(deq_log) :
            deq_log[i] = IF i <= Len(enq_log) THEN enq_log[i] ELSE 0

\* three distinct ids, not in increasing order, were enqueued and then four
\* dequeues were made
C2_Witness ==
    /\ phase = "dequeue"
    /\ Distinct(enq_log)
    /\ Len(enq_log) = 3
    /\ enq_log[1] > enq_log[2]
    /\ Len(deq_log) = 4

PendingAtStartup == {id \in StoreIds : store[id].stored_status = "pending"}
ProcessingAtStartup == {id \in StoreIds : store[id].stored_status = "processing"}

\* C8: when load_from_database has returned, the pending list holds exactly
\* the records that were Pending in the store, the returned count is their
\* number, every record that was Processing is Failed with an error
\* message, and no record is Processing or the current job.
C8_RecoveryDeterminism ==
    (recovered # -1 /\ deq_log = <<>>) =>
        /\ QueueIds(queue) = PendingAtStartup
        /\ Len(queue) = Cardinality(PendingAtStartup)
        /\ recovered = Cardinality(PendingAtStartup)
        /\ \A id \in ProcessingAtStartup :
               store[id].status = "failed" /\ store[id].error_message
        /\ \A id \in StoreIds : store[id].status # "processing"
        /\ current_job = NoJob

\* C9: recovered records are dequeued in the order of their creation.
C9_RecoveryCreationOrder ==
    \A i, j \in 1..Len(deq_log) :
        (i < j /\ deq_log[i] # 0 /\ deq_log[j] # 0) =>
            store[deq_log[i]].created_at < store[deq_log[j]].created_at

\* C11: the delay slept before the re-enqueue of a job that failed with
\* retry_count = k is retry_delay * 2^k: the i-th delay slept for a job is
\* retry_delay doubled i - 1 times (1, 2, 4, 8 for retry_delay = 1).
RECURSIVE Doubled(_, _)
Doubled(base, times) == IF times = 0 THEN base ELSE 2 * Doubled(base, times - 1)

C11_BackoffDelays ==
    \A job_id \in JobIds :
        /\ Len(sleep_log[job_id]) = requeues[job_id]
                                      + (IF wpc = "backoff" /\ wjob.job_id = job_id
                                           THEN 1 ELSE 0)
        /\ \A i \in 1..Len(sleep_log[job_id]) :
               sleep_log[job_id][i] = Doubled(retry_delay, i - 1)

\* with retry_delay = 1 one job has slept 1, 2, 4 and 8 seconds
C11_Witness ==
    /\ retry_delay = 1
    /\ \E job_id \in JobIds : sleep_log[job_id] = <<1, 2, 4, 8>>

\* the run of C12: max_retries = 3, jobs 1, 2, 3 submitted in this order,
\* generate_audio raising on the first two attempts of job 2 only
ScenarioRun ==
    /\ max_retries = 3
    /\ script = ScriptFor(2, 2)
    /\ nextId >= 3

\* process_next_job finds the queue empty
WorkerLoopEnded == wpc = "idle" /\ queue = <<>> /\ current_job = NoJob

\* C12: in that run, when the worker loop has ended, jobs 1, 2 and 3 are
\* Completed, job 2 has retry_count 2 and was dequeued 3 times, jobs 1 and 3
\* were dequeued once each (every dequeue by the worker is followed by one
\* call of _generate_with_progress, which attempts counts).
C12_RetryScenario ==
    (ScenarioRun /\ WorkerLoopEnded) =>
        /\ \A job_id \in {1, 2, 3} : StatusOf(job_id) = "completed"
        /\ job_states[2].retry_count = 2
        /\ attempts[2] = 3
        /\ attempts[1] = 1 /\ attempts[3] = 1
        /\ job_states[1].retry_count = 0 /\ job_states[3].retry_count = 0

\* the run has ended, job 2 having slept twice
C12_Witness ==
    /\ ScenarioRun
    /\ WorkerLoopEnded
    /\ Len(sleep_log[2]) = 2
    /\ StatusOf(3) = "completed"

\* C13: with a fairly scheduled worker loop whose generation calls all
\* return or raise, every submitted job eventually has a terminal status:
\* Completed or Failed, or Cancelled if a caller cancelled it.
C13_EventuallyTerminal ==
    \A job_id \in JobIds :
        (job_id \in submitted) ~> (StatusOf(job_id) \in TerminalStatuses)

\* a job that failed for good after a retry, while a job submitted after it
\* has been completed
C13_Witness ==
    \E a, b \in JobIds :
        /\ a < b
        /\ StatusOf(a) = "failed" /\ requeues[a] >= 1
        /\ StatusOf(b) = "completed"

\* C14: enqueue of an id that is an entry of the pending list or the current
\* job fails and leaves the pending list and total_enqueued unchanged; every
\* other enqueue appends one entry at the tail and adds one to total_enqueued.
C14_EnqueueRejectsDuplicate ==
    [][\A job_id \in JobIds :
          (enq_log' = Append(enq_log, job_id)) =>
              IF InQueue(job_id) \/ IsCurrent(job_id)
                THEN UNCHANGED <<queue, stats>>
                ELSE /\ queue' = Append(queue, QueuedJob(job_id, RequestFor(job_id), 0))
                     /\ stats'.total_enqueued = stats.total_enqueued + 1]_vars

\* C15: at every reachable state of the service no job id is both the
\* current job and an entry of the pending list, and no id occurs twice in
\* the pending list (the current slot is freed before the re-enqueue).
C15_CurrentNotQueued ==
    /\ \A job_id \in JobIds : ~(IsCurrent(job_id) /\ InQueue(job_id))
    /\ \A i, j \in 1..Len(queue) : i # j => queue[i].job_id # queue[j].job_id

\* C16: complete_job and fail_job with an id that is not the current job's
\* (or with no current job) change neither the current job, the pending list
\* nor the counters; with the current job's id they clear the current job
\* and add one to total_completed, respectively total_failed, and to nothing
\* else.
C16_CompleteFailFrame ==
    [][\A job_id \in JobIds :
          /\ QCompleteJob(job_id) =>
                IF IsCurrent(job_id)
                  THEN /\ current_job' = NoJob
                       /\ stats' = [stats EXCEPT !.total_completed = @ + 1]
                       /\ queue' = queue
                  ELSE UNCHANGED <<current_job, queue, stats>>
          /\ QFailJob(job_id) =>
                IF IsCurrent(job_id)
                  THEN /\ current_job' = NoJob
                       /\ stats' = [stats EXCEPT !.total_failed = @ + 1]
                       /\ queue' = queue
                  ELSE UNCHANGED <<current_job, queue, stats>>]_vars

\* complete_job was called with an id that is not the current job's, while
\* a job is current and another waits, after fail_job cleared the current
\* job once
C16_Witness ==
    /\ ret = [op |-> "complete_job", value |-> FALSE]
    /\ current_job # NoJob
    /\ queue # <<>>
    /\ stats.total_completed = 0
    /\ stats.total_failed = 1

\* C17: the retry_count of every job, in its job state and in its queue
\* entry, is always in 0..max_retries; a job state's retry_count changes
\* only in the state update of _handle_retry for that job, and then by
\* exactly +1 (so it never decreases, and success, cancel, final failure
\* and dequeue leave it alone).
C17_RetryCountMonotone ==
    /\ [](\A job_id \in JobIds : job_states[job_id].retry_count \in 0..max_retries)
    /\ [](\A i \in 1..Len(queue) : queue[i].retry_count \in 0..max_retries)
    /\ [][\A job_id \in JobIds :
             job_states'[job_id].retry_count # job_states[job_id].retry_count =>
                 /\ job_states'[job_id].retry_count = job_states[job_id].retry_count + 1
                 /\ WorkerRetryState
                 /\ wjob.job_id = job_id]_vars

\* one job was completed and another cancelled, each after it had been
\* retried once
C17_Witness ==
    \E a, b \in JobIds :
        /\ job_states[a].retry_count = 1 /\ StatusOf(a) = "completed"
        /\ job_states[b].retry_count = 1 /\ StatusOf(b) = "cancelled"

\* C18: at every reachable state a job whose status is Processing is the
\* QueueManager's current job.
C18_ProcessingIsCurrent ==
    \A job_id \in JobIds : StatusOf(job_id) = "processing" => IsCurrent(job_id)

\* a job is in its second attempt while another job waits and a failed
\* attempt of a third job has freed the current slot before
C18_Witness ==
    \E job_id \in JobIds :
        /\ StatusOf(job_id) = "processing"
        /\ IsCurrent(job_id)
        /\ attempts[job_id] = 2
        /\ queue # <<>>
        /\ \E other \in JobIds : StatusOf(other) = "failed"

\* C19: while the worker sleeps in _handle_retry the failing job is the
\* current job and not an entry of the pending list, no step dequeues (the
\* current job stays and no job becomes Processing), and the job enters the
\* pending list only in the step that ends the sleep.
C19_BackoffBlocksWorker ==
    /\ [](wpc = "backoff" => (IsCurrent(wjob.job_id) /\ ~InQueue(wjob.job_id)))
    /\ [][wpc = "backoff" =>
             /\ current_job' = current_job
             /\ \A job_id \in JobIds :
                    job_states'[job_id].status = "processing" =>
                        StatusOf(job_id) = "processing"
             /\ (wjob.job_id \in QueueIds(queue')) => wpc' = "retry_state"]_vars

\* the worker sleeps for a job while another job waits in the pending list
C19_Witness ==
    /\ wpc = "backoff"
    /\ \E other \in JobIds :
          /\ other # wjob.job_id
          /\ InQueue(other)
          /\ StatusOf(other) = "pending"

\* C20: a retried job is appended at the tail, and every job that is in the
\* pending list at that moment leaves it before the retried job is dequeued
\* again. Stated step by step: the re-enqueue appends at the tail; no step
\* changes the relative order of two entries that stay; a dequeue takes the
\* head; and an entry leaves the list only by being dequeued or cancelled.
C20_RetryGoesToTail ==
    [][/\ WorkerRetryEnqueue =>
            queue' = Append(queue, QueuedJob(wjob.job_id, wjob.request,
                                             wjob.retry_count + 1))
       /\ \A a, b \in QueueIds(queue) \cap QueueIds(queue') :
            FirstIndex(queue, a) < FirstIndex(queue, b) =>
                FirstIndex(queue', a) < FirstIndex(queue', b)
       /\ \A a \in QueueIds(queue), b \in QueueIds(queue') \ QueueIds(queue) :
            a \in QueueIds(queue') => FirstIndex(queue', a) < FirstIndex(queue', b)
       /\ (current_job' # current_job /\ current_job' # NoJob) =>
            (queue # <<>> /\ current_job' = Head(queue) /\ queue' = Tail(queue))
       /\ \A a \in QueueIds(queue) \ QueueIds(queue') :
            \/ current_job'.job_id = a /\ current_job' # current_job
            \/ job_states'[a].status = "cancelled"]_vars

\* the retried job has been dequeued again, after a job that was waiting
\* when it was re-enqueued has been completed and another one cancelled
C20_Witness ==
    \E r, a, b \in JobIds :
        /\ IsCurrent(r) /\ requeues[r] = 1 /\ attempts[r] = 2
        /\ StatusOf(a) = "completed" /\ a > r
        /\ StatusOf(b) = "cancelled" /\ b > r

\* a step of the service as it runs when no persistence call raises, seen
\* on everything but the generations table
StepWithoutPersistence ==
    \/ wpc' # wpc /\
         \/ WorkerDequeue
         \/ WorkerStartState
         \/ WorkerAdvanceState("loading_model", "processing", "encoding_prompt", "encoding_prompt")
         \/ WorkerAdvanceState("encoding_prompt", "processing", "generating", "generating")
         \/ WorkerAdvanceState("generating", "processing", "saving", "saving")
         \/ WorkerAdvanceState("saving", "completed", "completed", "completed")
         \/ WorkerRaise
         \/ WorkerCompleteState
         \/ WorkerExceptState
         \/ WorkerRetryEnqueue
         \/ WorkerRetryState
         \/ WorkerFailJob
    \/ nextId' # nextId /\ SubmitJobState
    \/ ret'.op = "cancel" /\ \E job_id \in JobIds : CancelJobState(job_id)

\* C21: whichever persistence calls raise, every step changes the job
\* states, the queue, the current job, the counters, the worker's position
\* and the value returned to the caller exactly as the step does when no
\* persistence call raises.
C21_PersistenceErrorsIgnored == [][StepWithoutPersistence]_vars

\* the record of one job was never created because create_generation
\* raised, and the job was completed all the same; another job, whose record
\* exists, has failed
C21_Witness ==
    \E a, b \in JobIds :
        /\ StatusOf(a) = "completed"
        /\ \A i \in 1..Len(table) : table[i].file_job # a
        /\ StatusOf(b) = "failed"
        /\ \E i \in 1..Len(table) : table[i].file_job = b

\* the persisted record of a job: the one whose file_path names the job
RecordsOf(job_id) == {i \in 1..Len(table) : table[i].file_job = job_id}

\* C22: when CancelJob returns true, the job's in-memory status is Cancelled
\* and its persisted record has status Cancelled and a non-empty error
\* message (taken for the runs in which no persistence call raises: every
\* submitted job has its record).
C22_CancelPersisted ==
    [][\A job_id \in JobIds :
          (CancelJob(job_id) /\ ret'.value = TRUE /\ RecordsOf(job_id) # {}) =>
              /\ job_states'[job_id].status = "cancelled"
              /\ \E i \in RecordsOf(job_id) :
                    /\ table'[i].status = "cancelled"
                    /\ table'[i].error_message # {}]_vars

\* C23: submit_job returns an id that no earlier submission returned, and
\* right after it the job's state is Pending / Queued with retry_count 0 and
\* the job is the last entry of the pending list.
C23_SubmitFreshPending ==
    [][\A job_id \in JobIds :
          SubmitJobDrawn(job_id) =>
              /\ job_id \notin submitted
              /\ job_states'[job_id].status = "pending"
              /\ job_states'[job_id].current_step = "queued"
              /\ job_states'[job_id].retry_count = 0
              /\ queue'[Len(queue')].job_id = job_id]_vars

\* C24: after the final-failure path, the error_message that get_job_status
\* returns for the job holds the error of the last attempt and the number
\* of retries that were exhausted.
C24_FailureMessageHasRetryCount ==
    \A job_id \in JobIds :
        StatusOf(job_id) = "failed" =>
            {"last_error", "retry_count"} \subseteq get_job_status(job_id).error_message

\* C25: get_position returns 0 exactly for the current job's id; for an id
\* that is not current and is in the pending list it returns the 1-based
\* place of its (first) entry; for an id that is neither it returns None.
C25_PositionOf ==
    \A job_id \in JobIds :
        /\ (get_position(job_id) = 0) <=> IsCurrent(job_id)
        /\ (~IsCurrent(job_id) /\ InQueue(job_id)) =>
              /\ get_position(job_id) \in 1..Len(queue)
              /\ queue[get_position(job_id)].job_id = job_id
              /\ \A k \in 1..(get_position(job_id) - 1) : queue[k].job_id # job_id
        /\ (~IsCurrent(job_id) /\ ~InQueue(job_id)) => get_position(job_id) = -1

\* one id is current, another is second in the pending list, a third is
\* nowhere
C25_Witness ==
    \E a, b, c \in JobIds :
        /\ get_position(a) = 0
        /\ get_position(b) = 2
        /\ get_position(c) = -1

\* C26: get_stats reports pending = number of entries of the pending list,
\* processing = 1 if a job is current and 0 otherwise, and completed and
\* failed start at 0 and grow by one with every complete_job, respectively
\* fail_job, call that matches the current job, and with nothing else.
C26_StatsCounts ==
    /\ get_stats.completed_jobs = 0
    /\ get_stats.failed_jobs = 0
    /\ [](/\ get_stats.pending_jobs = Len(queue)
          /\ get_stats.processing_jobs = (IF current_job = NoJob THEN 0 ELSE 1))
    /\ [][/\ get_stats'.completed_jobs = get_stats.completed_jobs
                 + (IF \E job_id \in JobIds : QCompleteJob(job_id) /\ IsCurrent(job_id)
                      THEN 1 ELSE 0)
          /\ get_stats'.failed_jobs = get_stats.failed_jobs
                 + (IF \E job_id \in JobIds : QFailJob(job_id) /\ IsCurrent(job_id)
                      THEN 1 ELSE 0)]_vars

\* after one matching complete_job, one matching fail_job and a fail_job
\* that matched nothing, no job is current and one waits
C26_Witness ==
    /\ get_stats = [pending_jobs |-> 1, processing_jobs |-> 0,
                    completed_jobs |-> 1, failed_jobs |-> 1]
    /\ ret = [op |-> "fail_job", value |-> FALSE]

\* C27: a job's step changes only forward along the pipeline order (queued,
\* loading_model, encoding_prompt, generating, saving, completed), or from
\* an in-progress step back to queued (retry) or to failed (final failure);
\* the creation of the job state and the cancellation of a waiting job are
\* outside any attempt and are let through.
PipelineOrder ==
    <<"queued", "loading_model", "encoding_prompt", "generating", "saving", "completed">>

InProgressSteps == {"loading_model", "encoding_prompt", "generating", "saving"}

StepMoveAllowed(job_id) ==
    LET before == job_states[job_id]
        after == job_states'[job_id]
    IN  \/ after.current_step = before.current_step
        \/ before.status = "none"
        \/ before.current_step = "queued" /\ after.status = "cancelled"
        \/ \E i, k \in 1..Len(PipelineOrder) :
              /\ i < k
              /\ before.current_step = PipelineOrder[i]
              /\ after.current_step = PipelineOrder[k]
        \/ /\ before.current_step \in InProgressSteps
           /\ after.current_step \in {"queued", "failed"}

C27_StepOrder == [][\A job_id \in JobIds : StepMoveAllowed(job_id)]_vars

\* C28: when an attempt fails with retry_count = max_retries, the handler
\* sets status failed, step failed and completed_at and enqueues nothing;
\* the fail_job call that follows empties the current slot; a failed job
\* stays failed and is never an entry of the pending list.
FinalFailureStep(job_id) ==
    /\ wpc = "except"
    /\ wpc' # wpc
    /\ wjob.job_id = job_id
    /\ wjob.retry_count = max_retries

FailCurrentStep(job_id) ==
    /\ wpc = "fail_job"
    /\ wpc' # wpc
    /\ wjob.job_id = job_id
    /\ StatusOf(job_id) = "failed"

C28_FinalFailure ==
    /\ [](\A job_id \in JobIds :
            StatusOf(job_id) = "failed" =>
              /\ job_states[job_id].current_step = "failed"
              /\ job_states[job_id].completed_at
              /\ ~InQueue(job_id)
              /\ IsCurrent(job_id) => (wpc = "fail_job" /\ wjob.job_id = job_id))
    /\ [][\A job_id \in JobIds :
            /\ FinalFailureStep(job_id) =>
                  /\ job_states'[job_id].status = "failed"
                  /\ queue' = queue
                  /\ wpc' = "fail_job"
            /\ FailCurrentStep(job_id) =>
                  /\ IsCurrent(job_id)
                  /\ current_job' = NoJob
                  /\ queue' = queue
            /\ StatusOf(job_id) = "failed" => job_states'[job_id].status = "failed"]_vars

\* a job has failed for good after one retry and has left the current slot,
\* while another job waits
C28_Witness ==
    \E job_id \in JobIds :
        /\ StatusOf(job_id) = "failed"
        /\ job_states[job_id].retry_count = 1
        /\ max_retries = 1
        /\ requeues[job_id] = 1
        /\ current_job = NoJob
        /\ wpc = "idle"
        /\ queue # <<>>

\* C29: when an attempt with retry_count = k < max_retries has failed and
\* process_next_job returns, the job has status pending and step queued,
\* retry_count k + 1 and the request it was submitted with, it is exactly
\* one entry of the pending list (with that request and retry_count k + 1),
\* and no job is current.
EntriesOf(q, job_id) == {i \in 1..Len(q) : q[i].job_id = job_id}

RetryHandledStep(job_id, k) ==
    /\ wpc = "fail_job"
    /\ wpc' = "idle"
    /\ wjob.job_id = job_id
    /\ wjob.retry_count = k
    /\ k < max_retries

C29_RetryPostState ==
    [][\A job_id \in JobIds : \A k \in 0..MaxRetryLimit :
         RetryHandledStep(job_id, k) =>
           /\ job_states'[job_id].status = "pending"
           /\ job_states'[job_id].current_step = "queued"
           /\ job_states'[job_id].retry_count = k + 1
           /\ job_states'[job_id].request = RequestFor(job_id)
           /\ Cardinality(EntriesOf(queue', job_id)) = 1
           /\ \A i \in EntriesOf(queue', job_id) :
                 /\ queue'[i].request = RequestFor(job_id)
                 /\ queue'[i].retry_count = k + 1
           /\ current_job' = NoJob]_vars

\* the worker is idle after a failed first attempt of a job that was
\* submitted behind another one: the job waits again, behind a later job
C29_Witness ==
    \E job_id \in JobIds :
        /\ wpc = "idle"
        /\ current_job = NoJob
        /\ requeues[job_id] = 1
        /\ attempts[job_id] = 1
        /\ StatusOf(job_id) = "pending"
        /\ job_states[job_id].retry_count = 1
        /\ Len(queue) = 2
        /\ queue[2].job_id = job_id

\* C30: an error raised at any place of the pipeline reaches the one
\* handler with nothing changed; the handler re-enqueues the job exactly
\* once, with retry_count + 1, if retry_count < max_retries, and takes the
\* final-failure path otherwise; exactly one fail_job call that counts is
\* made for each failed attempt, and no other step of the worker adds an
\* entry to the pending list or counts a failure.
RECURSIVE SumOver(_, _)
SumOver(f, ids) ==
    IF ids = {} THEN 0
    ELSE LET id == CHOOSE x \in ids : TRUE
         IN  f[id] + SumOver(f, ids \ {id})

FailedAttempts ==
    SumOver([job_id \in JobIds |->
               requeues[job_id] + (IF StatusOf(job_id) = "failed" THEN 1 ELSE 0)],
            JobIds)

HandlerPlaces == {"backoff", "retry_state", "fail_job"}

WorkerMoves == wpc' # wpc \/ wjob' # wjob

C30_ErrorsHandledAlike ==
    /\ [](wpc \notin HandlerPlaces => stats.total_failed = FailedAttempts)
    /\ [](wpc \in {"idle", "dequeued"} =>
            stats.total_completed + stats.total_failed = SumOver(attempts, JobIds))
    /\ [][WorkerMoves =>
            /\ (wpc \in TryBlock /\ wpc' \notin TryBlock /\ wpc' # "idle") =>
                  /\ wpc' = "except"
                  /\ UNCHANGED <<qmVars, job_states>>
            /\ wpc = "except" =>
                  /\ UNCHANGED qmVars
                  /\ IF wjob.retry_count < max_retries
                       THEN wpc' = "backoff" /\ UNCHANGED job_states
                       ELSE wpc' = "fail_job"
                              /\ job_states'[wjob.job_id].status = "failed"
            /\ wpc = "backoff" =>
                  /\ wpc' = "retry_state"
                  /\ queue' = Append(queue, QueuedJob(wjob.job_id, wjob.request,
                                                       wjob.retry_count + 1))
                  /\ stats'.total_failed = stats.total_failed
            /\ wpc = "retry_state" =>
                  /\ wpc' = "fail_job"
                  /\ UNCHANGED qmVars
            /\ wpc = "fail_job" =>
                  /\ wpc' = "idle"
                  /\ queue' = queue
                  /\ stats'.total_failed = stats.total_failed + 1
            /\ wpc \notin HandlerPlaces => stats'.total_failed = stats.total_failed
            /\ wpc # "backoff" => Len(queue') <= Len(queue)]_vars

\* save_audio has raised in the second attempt of a job whose first attempt
\* failed and was counted once; the handler is about to decide
C30_Witness ==
    /\ wpc = "except"
    /\ job_states[wjob.job_id].current_step = "saving"
    /\ wjob.retry_count = 1
    /\ attempts[wjob.job_id] = 2
    /\ requeues[wjob.job_id] = 1
    /\ stats.total_failed = 1

\* C31: for every job, _generate_with_progress is entered at most
\* max_retries + 1 times, whatever the attempts' outcomes and whatever other
\* jobs are submitted or cancelled.
C31_AttemptsBounded ==
    \A job_id \in JobIds : attempts[job_id] <= max_retries + 1

\* one job used all its max_retries + 1 attempts and failed, another one
\* failed once and completed in its last attempt
C31_Witness ==
    \E a, b \in JobIds :
        /\ a # b
        /\ max_retries = 1
        /\ attempts[a] = 2
        /\ StatusOf(a) = "failed"
        /\ attempts[b] = 2
        /\ StatusOf(b) = "completed"
        /\ job_states[b].completed_at

\* C32: a job's status becomes cancelled only in a cancel call that returns
\* true, made while the job is pending, is an entry of the pending list and
\* is not the current job; a cancelled job stays cancelled, is never in the
\* pending list nor in the worker's hands, and starts no attempt.
C32_CancelledOnlyFromQueued ==
    /\ [](\A job_id \in JobIds :
            StatusOf(job_id) = "cancelled" =>
              /\ ~InQueue(job_id)
              /\ ~IsCurrent(job_id)
              /\ wjob.job_id # job_id)
    /\ [][\A job_id \in JobIds :
            /\ (StatusOf(job_id) # "cancelled"
                   /\ job_states'[job_id].status = "cancelled") =>
                  /\ ret' = [op |-> "cancel", value |-> TRUE]
                  /\ StatusOf(job_id) = "pending"
                  /\ InQueue(job_id)
                  /\ ~IsCurrent(job_id)
            /\ StatusOf(job_id) = "cancelled" =>
                  /\ job_states'[job_id].status = "cancelled"
                  /\ attempts'[job_id] = attempts[job_id]]_vars

\* a job that failed once and waited for its second attempt was cancelled;
\* the worker has since taken the job that was behind it
C32_Witness ==
    \E job_id \in JobIds :
        /\ StatusOf(job_id) = "cancelled"
        /\ attempts[job_id] = 1
        /\ requeues[job_id] = 1
        /\ current_job # NoJob
        /\ stats.total_cancelled = 1

\* C33: while the worker is inside _generate_with_progress or in the sleep
\* of _handle_retry it does not hold the queue's lock: unless a batch caller
\* holds it, the lock is free, submit_job, the lock of enqueue_batch and
\* cancel_job of any id can run at once, and cancel_job succeeds for every
\* waiting job that is not the current one.
WorkerBusyPlaces == TryBlock \cup {"backoff"}

C33_LockFreeDuringWork ==
    (wpc \in WorkerBusyPlaces /\ lock # "batch") =>
        /\ lock = "free"
        /\ nextId < MaxJobs => ENABLED SubmitJob
        /\ bpc = "enqueue_batch" => ENABLED BatchAcquire
        /\ \A job_id \in JobIds :
              /\ ENABLED CancelJob(job_id)
              /\ (InQueue(job_id) /\ ~IsCurrent(job_id)) => cancel_found(job_id)

\* the worker sleeps before a retry while another job waits and a batch is
\* about to take the lock
C33_Witness ==
    /\ wpc = "backoff"
    /\ lock = "free"
    /\ bpc = "enqueue_batch"
    /\ \E job_id \in JobIds : InQueue(job_id) /\ ~IsCurrent(job_id)

\* C34: in every reachable state and for every job, completed_at is set
\* only if the status is completed, failed or cancelled, and error_message
\* is present only if the status is failed or cancelled.
C34_TerminalFields ==
    \A job_id \in JobIds :
        /\ job_states[job_id].completed_at => StatusOf(job_id) \in TerminalStatuses
        /\ job_states[job_id].error_message # {} =>
              StatusOf(job_id) \in {"failed", "cancelled"}

\* one job completed, one failed for good after a retry, one was cancelled
\* while it waited
C34_Witness ==
    \E a, b, c \in JobIds :
        /\ StatusOf(a) = "completed" /\ job_states[a].completed_at
        /\ job_states[a].error_message = {}
        /\ StatusOf(b) = "failed" /\ job_states[b].completed_at
        /\ job_states[b].error_message # {}
        /\ requeues[b] = 1
        /\ StatusOf(c) = "cancelled" /\ ~job_states[c].completed_at

\* C35: in any run of enqueue, enqueue_batch, dequeue, complete_job, fail_job
\* and cancel_job in which dequeue is called only while no job is current
\* (no clear, no recovery), total_enqueued = entries of the pending list
\* + (1 if a job is current) + total_completed + total_failed
\* + total_cancelled in every state.
C35_CounterLedger ==
    stats.total_enqueued =
        Len(queue) + (IF current_job = NoJob THEN 0 ELSE 1)
          + stats.total_completed + stats.total_failed + stats.total_cancelled

\* every term of the sum is positive
C35_Witness ==
    /\ Len(queue) >= 1
    /\ current_job # NoJob
    /\ stats.total_completed >= 1
    /\ stats.total_failed >= 1
    /\ stats.total_cancelled >= 1

\* C36: the failed counter counts failed attempts: between attempts it is
\* the sum over the jobs of their attempts, less one for each completed job,
\* so a job that failed k times and then completed adds k to it and 1 to the
\* completed counter, and a job that used up its retries adds
\* max_retries + 1; total_enqueued counts every first enqueue and every
\* re-enqueue.
FirstEnqueued == submitted \cup {bjobs[i][1] : i \in 1..bapp}

C37_HeldJobIsCurrent ==
    wpc # "idle" =>
        /\ IsCurrent(wjob.job_id)
        /\ ~cancel_found(wjob.job_id)
        /\ get_position(wjob.job_id) = 0

\* the job has been re-enqueued behind the two other jobs and is still
\* current; a cancel call has just been refused, and it was for this job,
\* since a call for either of the others would have succeeded
C37_Witness ==
    /\ wpc = "retry_state"
    /\ Len(queue) = 3
    /\ queue[3].job_id = wjob.job_id
    /\ \A other \in JobIds \ {wjob.job_id} : cancel_found(other)
    /\ ret = [op |-> "cancel", value |-> FALSE]

\* C38: with the single worker, the id the service passes to complete_job or
\* fail_job is the current job's, so between attempts (the worker is about
\* to call dequeue) no job is current and get_stats reports processing 0.
C38_SlotEmptyBetweenAttempts ==
    /\ wpc \in {"completed", "fail_job"} => IsCurrent(wjob.job_id)
    /\ wpc = "idle" =>
          /\ current_job = NoJob
          /\ get_stats.processing_jobs = 0

\* the worker is between attempts after one completed and two failed
\* attempts, with a job waiting for it
C38_Witness ==
    /\ wpc = "idle"
    /\ queue # <<>>
    /\ get_stats = [pending_jobs |-> 1, processing_jobs |-> 0,
                    completed_jobs |-> 1, failed_jobs |-> 2]

\* C39: load_from_database appends as many entries as it reports, each with
\* retry_count 0, and leaves the total_enqueued counter as it was.
C39_RecoverResetsRetryCount ==
    [][(recovered = -1 /\ recovered' # -1) =>
          /\ Len(queue') = Len(queue) + recovered'
          /\ SubSeq(queue', 1, Len(queue)) = queue
          /\ \A i \in (Len(queue) + 1)..Len(queue') : queue'[i].retry_count = 0
          /\ stats'.total_enqueued = stats.total_enqueued]_vars

\* two jobs were loaded, one of them has been dequeued with retry_count 0,
\* and the counter of enqueues is still 0
C39_Witness ==
    /\ recovered >= 2
    /\ current_job # NoJob
    /\ current_job.retry_count = 0
    /\ queue # <<>>
    /\ stats.total_enqueued = 0

====
